---------------------------- MODULE Spec2Model ----------------------------
(***************************************************************************)
(* Model of the website diff checker (batemapf/site-differ):               *)
(*   lambda/app.py            lambda_handler, process_url, should_notify   *)
(*   lambda/dynamodb_state.py get_state, update_state, touch_state         *)
(*   lambda/normalizer.py     normalize_html, compute_hash                 *)
(*   lambda/diff_generator.py generate_diff_snippet, truncate_line         *)
(*                                                                         *)
(* Python values are represented as follows.                               *)
(*   str     a sequence of one-character strings, e.g. <<"a", "\n", "b">>  *)
(*           (short opaque strings such as etags stay TLA+ strings)        *)
(*   dict    a function whose DOMAIN is the set of keys that are present   *)
(*   None    for an Optional[Dict]: the empty function <<>>, which has the *)
(*           same truth value as None everywhere the code tests it         *)
(*   list    a sequence                                                    *)
(* Timestamps are stored the way the code stores them, as the text that    *)
(* isoformat() produces; the text is a tuple <<"iso", t, offset>> with t   *)
(* the instant in clock ticks.                                             *)
(***************************************************************************)
EXTENDS Integers, Sequences, FiniteSets, TLC

VARIABLES
    store,            \* the DynamoDB table: url -> item (dict); absent urls are not in DOMAIN
    clock,            \* current UTC time, in ticks of TickSeconds seconds
    url_configs,      \* URLS_JSON as loaded by load_urls
    ignore_patterns,  \* IGNORE_REGEX_JSON as loaded by load_ignore_patterns
    cooldown_hours,   \* COOLDOWN_HOURS
    pc,               \* lambda_handler: "idle", "loop", "collected", "done", "raised"
    idx,              \* index (1-based) of the next url_config to process
    changes,          \* lambda_handler's local list `changes`
    digest,           \* calls of send_digest_email made in the current run
    result,           \* what the current run returned (<<>> while it has not returned)
    calls,            \* the calls of process_url made in the current run, in order
    fetched,          \* per url: <<text>> fetched and normalized by its previous processing
    decided,          \* per url: <<time>> of the last call that returned a change record
    normalized,       \* per url: whether a call ever fetched and normalized it
    applied,          \* the last direct call of a pure function: its arguments and value
    runs,             \* number of invocations of lambda_handler so far
    faults            \* number of state-store calls that failed so far

vars == <<store, clock, url_configs, ignore_patterns, cooldown_hours,
          pc, idx, changes, digest, result, calls, fetched, decided, normalized,
          applied, runs, faults>>

-----------------------------------------------------------------------------
(* Bounds of the model *)

MaxTime == 2
MaxRuns == 3
MaxFaults == 1
MaxNewLines == 22
TickSeconds == 1800

(* Program constants *)

SecondsPerHour == 3600
MAX_DIFF_LINES == 20
MAX_LINE_LENGTH == 200
MAX_ERROR_LENGTH == 500

-----------------------------------------------------------------------------
(* Python helpers *)

None == <<"None">>

Min(a, b) == IF a < b THEN a ELSE b

\* s[:n]
Take(s, n) == SubSeq(s, 1, Min(n, Len(s)))

\* dict.update / DynamoDB SET: keys of `updates` overwrite, the others stay
DictUpdate(d, updates) ==
    [k \in DOMAIN d \cup DOMAIN updates |->
        IF k \in DOMAIN updates THEN updates[k] ELSE d[k]]

\* d restricted to the keys in ks
DictOnly(d, ks) == [k \in DOMAIN d \cap ks |-> d[k]]

\* A character is a string: itself, or the name of its code point when it has
\* no escape of its own.
\* the line boundaries of str.splitlines(): \n, \r, \f, \v, the file, group
\* and record separators, next line, line and paragraph separator
LineBoundaries ==
    {"\n", "\r", "\f", "U+000B", "U+001C", "U+001D", "U+001E", "U+0085", "U+2028",
     "U+2029"}

\* the characters str.isspace() holds for, which str.strip() removes
Whitespace ==
    LineBoundaries
    \cup {" ", "\t", "U+001F", "U+00A0", "U+1680", "U+2000", "U+2001", "U+2002",
          "U+2003", "U+2004", "U+2005", "U+2006", "U+2007", "U+2008", "U+2009",
          "U+200A", "U+202F", "U+205F", "U+3000"}

IsSpace(c) == c \in Whitespace

RECURSIVE LStrip(_)
LStrip(s) == IF s # <<>> /\ IsSpace(Head(s)) THEN LStrip(Tail(s)) ELSE s

RECURSIVE RStrip(_)
RStrip(s) ==
    IF s # <<>> /\ IsSpace(s[Len(s)]) THEN RStrip(SubSeq(s, 1, Len(s) - 1)) ELSE s

\* str.strip()
Strip(s) == RStrip(LStrip(s))

\* index of the first line boundary of s, 0 when there is none
FirstBreak(s) ==
    IF \E i \in 1..Len(s) : s[i] \in LineBoundaries
    THEN CHOOSE i \in 1..Len(s) :
            s[i] \in LineBoundaries /\ \A j \in 1..(i - 1) : s[j] \notin LineBoundaries
    ELSE 0

\* the number of characters of the boundary at i: \r\n is one boundary
BreakLength(s, i) ==
    IF s[i] = "\r" /\ i < Len(s) /\ s[i + 1] = "\n" THEN 2 ELSE 1

\* str.splitlines(): a text without boundary is one line, a boundary at the
\* end ends the last line, and otherwise the lines are those of the two
\* halves of the text, the line the cut goes through put together again
RECURSIVE SplitLines(_)
SplitLines(s) ==
    IF s = <<>> THEN <<>>
    ELSE LET i == FirstBreak(s) IN
         IF i = 0 THEN <<s>>
         ELSE IF i + BreakLength(s, i) > Len(s) THEN <<SubSeq(s, 1, i - 1)>>
         ELSE LET half == Len(s) \div 2
                  cut == IF s[half] = "\r" /\ s[half + 1] = "\n" THEN half + 1 ELSE half
                  left == SplitLines(SubSeq(s, 1, cut))
                  right == SplitLines(SubSeq(s, cut + 1, Len(s)))
              IN  IF s[cut] \in LineBoundaries
                  THEN left \o right
                  ELSE SubSeq(left, 1, Len(left) - 1)
                       \o <<left[Len(left)] \o right[1]>>
                       \o Tail(right)

\* '\n'.join(lines)
RECURSIVE JoinLines(_)
JoinLines(lines) ==
    IF lines = <<>> THEN <<>>
    ELSE IF Len(lines) = 1 THEN lines[1]
    ELSE LET half == Len(lines) \div 2 IN
         JoinLines(SubSeq(lines, 1, half)) \o <<"\n">>
         \o JoinLines(SubSeq(lines, half + 1, Len(lines)))

\* the decimal text of a non-negative number inside an f-string
Decimal(n) == <<ToString(n)>>

-----------------------------------------------------------------------------
(* lambda/normalizer.py *)

\* A fetched page, as BeautifulSoup(html, 'html.parser') takes it: markup the
\* parser rejects (`rejected`), or the tree built of it, a sequence of
\* elements, each a tag, an id attribute and one text node.
Elem(tag, id, text) == [tag |-> tag, id |-> id, text |-> text]
Page(elems) == [rejected |-> FALSE, elems |-> elems]

PageA == Page(<<Elem("p", "", <<"a">>)>>)
PageA2 == Page(<<Elem("script", "", <<"x">>), Elem("p", "", <<" ", "a", "\n", " ">>)>>)
PageAB == Page(<<Elem("p", "", <<"a">>), Elem("p", "main", <<"b">>)>>)

\* what the parser does with a marked section of unknown keyword: the
\* html.parser of some interpreters raises on it, which BeautifulSoup passes
\* on as ParserRejectedMarkup, that of others reads it as a comment
ParserOutcomes == {"ParserRejectedMarkup", "comment"}

\* the markup '<![x]>', under either parser: rejected, or a tree with no text
PageMarkedSection(outcome) ==
    [rejected |-> outcome = "ParserRejectedMarkup", elems |-> <<>>]

\* str(e) of the ParserRejectedMarkup raised for '<![x]>'
ParserRejectedMessage ==
    <<"T", "h", "e", " ", "m", "a", "r", "k", "u", "p", " ", "y", "o", "u",
      " ", "p", "r", "o", "v", "i", "d", "e", "d", " ", "w", "a", "s", " ",
      "r", "e", "j", "e", "c", "t", "e", "d", " ", "b", "y", " ", "t", "h",
      "e", " ", "p", "a", "r", "s", "e", "r", ".", " ", "T", "r", "y", "i",
      "n", "g", " ", "a", " ", "d", "i", "f", "f", "e", "r", "e", "n", "t",
      " ", "p", "a", "r", "s", "e", "r", " ", "o", "r", " ", "a", " ", "d",
      "i", "f", "f", "e", "r", "e", "n", "t", " ", "e", "n", "c", "o", "d",
      "i", "n", "g", " ", "m", "a", "y", " ", "h", "e", "l", "p", ".", "\n",
      "\n", "O", "r", "i", "g", "i", "n", "a", "l", " ", "e", "x", "c", "e",
      "p", "t", "i", "o", "n", "(", "s", ")", " ", "f", "r", "o", "m", " ",
      "p", "a", "r", "s", "e", "r", ":", "\n", " ", "A", "s", "s", "e", "r",
      "t", "i", "o", "n", "E", "r", "r", "o", "r", ":", " ", "u", "n", "k",
      "n", "o", "w", "n", " ", "s", "t", "a", "t", "u", "s", " ", "k", "e",
      "y", "w", "o", "r", "d", " ", "'", "x", "'", " ", "i", "n", " ", "m",
      "a", "r", "k", "e", "d", " ", "s", "e", "c", "t", "i", "o", "n">>

Pages == {PageA, PageA2, PageAB}
         \cup {PageMarkedSection(outcome) : outcome \in ParserOutcomes}

\* An exclude pattern: whether re.compile accepts it, the exception it raises
\* when it does not, and the character a line must contain for
\* pattern.search(line) to match.
Pattern(compiles, ch) ==
    [compiles |-> compiles, exc |-> IF compiles THEN "" ELSE "re.error", ch |-> ch]

\* a pattern that is no string (a number or null of the JSON list): re.compile
\* raises TypeError
NonStringPattern == [compiles |-> FALSE, exc |-> "TypeError", ch |-> ""]

\* a string such as 'a{99999999999999999999}': re.compile raises OverflowError
OverflowPattern == [compiles |-> FALSE, exc |-> "OverflowError", ch |-> "a"]

\* str(e) of the exception re.compile raises for a pattern that is no string
TypeErrorMessage ==
    <<"f", "i", "r", "s", "t", " ", "a", "r", "g", "u", "m", "e", "n", "t",
      " ", "m", "u", "s", "t", " ", "b", "e", " ", "s", "t", "r", "i", "n",
      "g", " ", "o", "r", " ", "c", "o", "m", "p", "i", "l", "e", "d", " ",
      "p", "a", "t", "t", "e", "r", "n">>

\* str(e) of the OverflowError of re.compile
OverflowErrorMessage ==
    <<"t", "h", "e", " ", "r", "e", "p", "e", "t", "i", "t", "i", "o", "n",
      " ", "n", "u", "m", "b", "e", "r", " ", "i", "s", " ", "t", "o", "o",
      " ", "l", "a", "r", "g", "e">>

PatternSearch(pattern, line) == \E i \in 1..Len(line) : line[i] = pattern.ch

NoSelector == ""

\* a selector soup.select raises on
InvalidSelector == "p["

SelectRaises(selector) == selector = InvalidSelector

\* for tag in soup(['script', 'style', 'noscript']): tag.decompose()
RECURSIVE Decompose(_)
Decompose(elems) ==
    IF elems = <<>> THEN <<>>
    ELSE (IF Head(elems).tag \in {"script", "style", "noscript"}
          THEN <<>> ELSE <<Head(elems)>>)
         \o Decompose(Tail(elems))

\* soup.select(selector), for an id selector
RECURSIVE Select(_, _)
Select(elems, selector) ==
    IF elems = <<>> THEN <<>>
    ELSE (IF Head(elems).id = selector THEN <<Head(elems)>> ELSE <<>>)
         \o Select(Tail(elems), selector)

\* soup.get_text(separator='\n', strip=True): the stripped, non-empty text
\* nodes joined by '\n'
RECURSIVE TextNodes(_)
TextNodes(elems) ==
    IF elems = <<>> THEN <<>>
    ELSE (IF Strip(Head(elems).text) # <<>> THEN <<Strip(Head(elems).text)>> ELSE <<>>)
         \o TextNodes(Tail(elems))

GetText(elems) == JoinLines(TextNodes(elems))

\* the lines as split, not trimmed
UntrimmedLines(lines) == lines

RECURSIVE StripEach(_)
StripEach(lines) ==
    IF lines = <<>> THEN <<>> ELSE <<Strip(Head(lines))>> \o StripEach(Tail(lines))

RECURSIVE DropEmpty(_)
DropEmpty(lines) ==
    IF lines = <<>> THEN <<>>
    ELSE (IF Head(lines) # <<>> THEN <<Head(lines)>> ELSE <<>>) \o DropEmpty(Tail(lines))

\* the patterns re.compile accepts, in order
RECURSIVE CompiledPatterns(_)
CompiledPatterns(patterns) ==
    IF patterns = <<>> THEN <<>>
    ELSE (IF Head(patterns).compiles THEN <<Head(patterns)>> ELSE <<>>)
         \o CompiledPatterns(Tail(patterns))

RECURSIVE FilterLines(_, _)
FilterLines(lines, compiled) ==
    IF lines = <<>> THEN <<>>
    ELSE (IF \E i \in 1..Len(compiled) : PatternSearch(compiled[i], Head(lines))
          THEN <<>> ELSE <<Head(lines)>>)
         \o FilterLines(Tail(lines), compiled)

\* the exception that leaves normalize_html, "" when it returns: the parser's
\* (raised again at line 30) or the first one of re.compile that is no re.error
NormalizeException(html, patterns) ==
    IF html.rejected THEN "ParserRejectedMarkup"
    ELSE LET failing == {i \in 1..Len(patterns) : patterns[i].exc \notin {"", "re.error"}} IN
         IF failing = {} THEN ""
         ELSE patterns[CHOOSE i \in failing : \A j \in failing : i <= j].exc

NormalizeRaises(html, patterns) == NormalizeException(html, patterns) # ""

\* str(e) of the exception that leaves normalize_html
NormalizeMessage(html, patterns) ==
    IF html.rejected THEN ParserRejectedMessage
    ELSE IF NormalizeException(html, patterns) = "TypeError" THEN TypeErrorMessage
    ELSE OverflowErrorMessage

normalize_html(html, selector, patterns) ==
    LET soup == Decompose(html.elems)
        selected == IF selector # NoSelector /\ ~SelectRaises(selector)
                    THEN Select(soup, selector) ELSE <<>>
        scoped == IF selected # <<>> THEN selected ELSE soup
        text == GetText(scoped)
        lines == DropEmpty(StripEach(SplitLines(text)))
        kept == IF patterns # <<>>
                THEN FilterLines(lines, CompiledPatterns(patterns))
                ELSE lines
    IN  JoinLines(kept)

\* hashlib.sha256(text.encode('utf-8')).hexdigest(): a digest that is
\* determined by the text and distinct for distinct texts
compute_hash(text) == <<"sha256", text>>

-----------------------------------------------------------------------------
(* lambda/diff_generator.py *)

truncate_line(line) ==
    IF Len(line) > MAX_LINE_LENGTH
    THEN Take(line, MAX_LINE_LENGTH) \o <<".", ".", ".">>
    ELSE line

RECURSIVE AdditionLines(_)
AdditionLines(lines) ==
    IF lines = <<>> THEN <<>>
    ELSE <<(<<"+", " ">> \o truncate_line(Head(lines)))>> \o AdditionLines(Tail(lines))

MoreLinesMarker(n) ==
    <<".", ".", ".", " ", "(">> \o Decimal(n)
        \o <<" ", "m", "o", "r", "e", " ", "l", "i", "n", "e", "s", ")">>

\* a new-target branch whose marker states the number of all lines
NewSnippetCountsAll(new_text) ==
    LET all == SplitLines(new_text)
        snippet == JoinLines(AdditionLines(Take(all, MAX_DIFF_LINES)))
    IN  IF Len(all) > MAX_DIFF_LINES
        THEN snippet \o <<"\n">> \o MoreLinesMarker(Len(all))
        ELSE snippet

\* the branch `if not old_text`
NewSnippet(new_text) ==
    LET all == SplitLines(new_text)
        snippet == JoinLines(AdditionLines(Take(all, MAX_DIFF_LINES)))
    IN  IF Len(all) > MAX_DIFF_LINES
        THEN snippet \o <<"\n">> \o MoreLinesMarker(Len(all) - MAX_DIFF_LINES)
        ELSE snippet

\* SequenceMatcher.__chain_b with autojunk: when b has 200 lines or more, the
\* lines that occur more than len(b) // 100 + 1 times in it are left out of
\* the index b2j
Occurrences(b, line) == Cardinality({j \in 1..Len(b) : b[j] = line})

Popular(b) ==
    IF Len(b) >= 200
    THEN {b[j] : j \in {n \in 1..Len(b) : Occurrences(b, b[n]) > (Len(b) \div 100) + 1}}
    ELSE {}

\* a[i..i+k-1] = b[j..j+k-1], all of them lines of the index b2j
BlockAt(a, i, b, j, k) ==
    \A d \in 0..(k - 1) : a[i + d] = b[j + d] /\ b[j + d] \notin Popular(b)

Blocks(a, alo, ahi, b, blo, bhi) ==
    {m \in (alo..ahi) \X (blo..bhi) \X (1..Min(ahi - alo + 1, bhi - blo + 1)) :
        /\ m[1] + m[3] - 1 <= ahi
        /\ m[2] + m[3] - 1 <= bhi
        /\ BlockAt(a, m[1], b, m[2], m[3])}

BetterBlock(m, n) ==
    \/ m[3] > n[3]
    \/ m[3] = n[3] /\ m[1] < n[1]
    \/ m[3] = n[3] /\ m[1] = n[1] /\ m[2] <= n[2]

\* the loops that extend the best block by the equal lines before it and
\* after it, which may be lines left out of b2j
RECURSIVE ExtendBack(_, _, _, _, _)
ExtendBack(a, alo, b, blo, m) ==
    IF m[1] > alo /\ m[2] > blo /\ a[m[1] - 1] = b[m[2] - 1]
    THEN ExtendBack(a, alo, b, blo, <<m[1] - 1, m[2] - 1, m[3] + 1>>)
    ELSE m

RECURSIVE ExtendForward(_, _, _, _, _)
ExtendForward(a, ahi, b, bhi, m) ==
    IF m[1] + m[3] <= ahi /\ m[2] + m[3] <= bhi /\ a[m[1] + m[3]] = b[m[2] + m[3]]
    THEN ExtendForward(a, ahi, b, bhi, <<m[1], m[2], m[3] + 1>>)
    ELSE m

\* SequenceMatcher.find_longest_match on a[alo..ahi], b[blo..bhi] (1-based,
\* inclusive): the longest common block of indexed lines, of those the one
\* that starts earliest in a, of those the one that starts earliest in b,
\* then extended on both sides. No line is junk (isjunk is None).
find_longest_match(a, alo, ahi, b, blo, bhi) ==
    LET ms == Blocks(a, alo, ahi, b, blo, bhi)
        best == IF ms = {} THEN <<alo, blo, 0>>
                ELSE CHOOSE m \in ms : \A n \in ms : BetterBlock(m, n)
    IN  ExtendForward(a, ahi, b, bhi, ExtendBack(a, alo, b, blo, best))

Prefixed(sign, lines) == [i \in 1..Len(lines) |-> <<sign>> \o lines[i]]

\* The body lines difflib.unified_diff(old_lines, new_lines, lineterm='', n=0)
\* yields between its headers: get_matching_blocks splits around the longest
\* block, and every gap between blocks is one opcode whose removed lines come
\* before its added lines.
RECURSIVE DiffBody(_, _, _, _, _, _)
DiffBody(a, alo, ahi, b, blo, bhi) ==
    LET m == find_longest_match(a, alo, ahi, b, blo, bhi) IN
    IF m[3] = 0
    THEN Prefixed("-", SubSeq(a, alo, ahi)) \o Prefixed("+", SubSeq(b, blo, bhi))
    ELSE DiffBody(a, alo, m[1] - 1, b, blo, m[2] - 1)
         \o DiffBody(a, m[1] + m[3], ahi, b, m[2] + m[3], bhi)

StartsWith(line, prefix) ==
    Len(line) >= Len(prefix) /\ SubSeq(line, 1, Len(prefix)) = prefix

IsHeaderLine(line) ==
    \/ StartsWith(line, <<"-", "-", "-">>)
    \/ StartsWith(line, <<"+", "+", "+">>)
    \/ StartsWith(line, <<"@", "@">>)

\* unified_diff's output: '--- ', '+++ ' and one '@@ ... @@' line per hunk
\* precede the body lines; the loop at lines 49-52 drops every line that
\* starts with '---', '+++' or '@@'.
FilteredLines(diff_lines) == SelectSeq(diff_lines, LAMBDA line : ~IsHeaderLine(line))

MoreChangesMarker(n) ==
    <<".", ".", ".", " ", "(">> \o Decimal(n)
        \o <<" ", "m", "o", "r", "e", " ", "c", "h", "a", "n", "g", "e", "s", ")">>

TruncateEach(lines) == [i \in 1..Len(lines) |-> truncate_line(lines[i])]

\* the branch for a non-empty old_text
DiffSnippet(old_text, new_text) ==
    LET old_lines == SplitLines(old_text)
        new_lines == SplitLines(new_text)
        filtered_lines ==
            FilteredLines(DiffBody(old_lines, 1, Len(old_lines), new_lines, 1, Len(new_lines)))
        snippet_lines ==
            IF Len(filtered_lines) > MAX_DIFF_LINES
            THEN Append(Take(filtered_lines, MAX_DIFF_LINES),
                        MoreChangesMarker(Len(filtered_lines) - MAX_DIFF_LINES))
            ELSE filtered_lines
    IN  JoinLines(TruncateEach(snippet_lines))

generate_diff_snippet(old_text, new_text) ==
    IF old_text = <<>> THEN NewSnippet(new_text) ELSE DiffSnippet(old_text, new_text)

-----------------------------------------------------------------------------
(* Timestamps *)

\* datetime.now(timezone.utc).isoformat() at instant t
isoformat(t) == <<"iso", t, "+00:00">>

\* datetime.fromisoformat(value.replace('Z', '+00:00')), with the errors it
\* raises: a value without .replace (None, a number) gives AttributeError, a
\* text that is no ISO timestamp gives ValueError, an ISO text without an
\* offset gives a naive datetime.
fromisoformat_replace(value) ==
    IF value[1] = "iso"
    THEN [exc |-> "", aware |-> value[3] # "", t |-> value[2]]
    ELSE IF value[1] = "text"
    THEN [exc |-> "ValueError", aware |-> FALSE, t |-> 0]
    ELSE [exc |-> "AttributeError", aware |-> FALSE, t |-> 0]

-----------------------------------------------------------------------------
(* lambda/app.py: should_notify *)

Returns(value) == [exc |-> "", ret |-> value]
Raises(exc) == [exc |-> exc, ret |-> FALSE]

\* a cooldown that is only over once more than cooldown_hours have passed
CooldownElapsedStrict(now, last_notified, cooldown) ==
    (now - last_notified) * TickSeconds > cooldown * SecondsPerHour

\* (now - last_notified).total_seconds() / 3600 >= cooldown_hours
CooldownElapsed(now, last_notified, cooldown) ==
    (now - last_notified) * TickSeconds >= cooldown * SecondsPerHour

\* should_notify reaches datetime.now at line 65: the cooldown is positive and
\* the stored last_notified_at was parsed
ReadsClock(prev_state, cooldown) ==
    /\ cooldown > 0
    /\ prev_state # <<>>
    /\ "last_notified_at" \in DOMAIN prev_state
    /\ fromisoformat_replace(prev_state["last_notified_at"]).exc = ""

\* `now` is the instant read at line 65
should_notify(url, prev_state, cooldown, now) ==
    IF cooldown <= 0 THEN Returns(TRUE)
    ELSE IF prev_state = <<>> \/ "last_notified_at" \notin DOMAIN prev_state
    THEN Returns(TRUE)
    ELSE LET parsed == fromisoformat_replace(prev_state["last_notified_at"]) IN
         IF parsed.exc \in {"ValueError", "AttributeError"} THEN Returns(TRUE)
         ELSE IF ~parsed.aware THEN Raises("TypeError")
         ELSE Returns(CooldownElapsed(now, parsed.t, cooldown))

-----------------------------------------------------------------------------
(* lambda/dynamodb_state.py *)

\* what _get_table() and table.get_item may do: answer, raise a ClientError,
\* or raise another exception (a BotoCoreError such as
\* EndpointConnectionError or NoRegionError)
ReadOutcomes == {"ok", "ClientError", "EndpointConnectionError"}

\* table.get_item; a ClientError is logged and None is returned, any other
\* exception leaves get_state
get_state(table, url, read) ==
    IF read = "ok" THEN Returns(IF url \in DOMAIN table THEN table[url] ELSE <<>>)
    ELSE IF read = "ClientError" THEN Returns(<<>>)
    ELSE Raises(read)

\* table.update_item(Key={'url': url}, SET ...): creates the item when there
\* is none, overwrites the attributes named, keeps the others. A ClientError
\* is logged and raised again: the table is then unchanged.
update_state(table, url, updates, write_ok) ==
    IF write_ok
    THEN [exc |-> "",
          table |-> [u \in DOMAIN table \cup {url} |->
                        IF u = url
                        THEN DictUpdate(IF url \in DOMAIN table THEN table[url]
                                        ELSE [url |-> url], updates)
                        ELSE table[u]]]
    ELSE [exc |-> "ClientError", table |-> table]

\* a touch that also resets the error count, as the unchanged branch does
TouchAndReset(now) == [last_checked_at |-> isoformat(now), error_count |-> 0]

touch_updates(now) == [last_checked_at |-> isoformat(now)]

touch_state(table, url, now, write_ok) ==
    update_state(table, url, touch_updates(now), write_ok)

-----------------------------------------------------------------------------
(* lambda/app.py: process_url *)

ConditionalHeaders(prev_state) ==
    LET keys == {k \in {"etag", "last_modified"} : k \in DOMAIN prev_state /\ prev_state[k] # ""}
        name == [etag |-> "If-None-Match", last_modified |-> "If-Modified-Since"]
    IN  [h \in {name[k] : k \in keys} |->
            IF h = "If-None-Match" THEN prev_state["etag"] ELSE prev_state["last_modified"]]

\* prev_state.get('error_count', 0) if prev_state else 0, plus one
NextErrorCount(prev_state) ==
    (IF "error_count" \in DOMAIN prev_state THEN prev_state["error_count"] ELSE 0) + 1

ErrorUpdates(prev_state, msg, now) ==
    [error_count |-> NextErrorCount(prev_state),
     last_error |-> Take(msg, MAX_ERROR_LENGTH),
     last_checked_at |-> isoformat(now)]

\* an unchanged update that also moves last_changed_at
UnchangedUpdatesChanged(now) ==
    [last_checked_at |-> isoformat(now), last_changed_at |-> isoformat(now),
     error_count |-> 0]

UnchangedUpdates(now) == [last_checked_at |-> isoformat(now), error_count |-> 0]

\* a state_update that already holds last_notified_at before the cooldown check
ChangedUpdatesNotified(new_hash, normalized_text, response, now) ==
    DictUpdate([last_hash |-> new_hash,
                last_checked_at |-> isoformat(now),
                last_changed_at |-> isoformat(now),
                last_notified_at |-> isoformat(now),
                error_count |-> 0,
                normalized_text |-> normalized_text],
               DictOnly(response, {"etag", "last_modified"}))

\* state_update of lines 149-161, before the cooldown check
ChangedUpdates(new_hash, normalized_text, response, now) ==
    DictUpdate([last_hash |-> new_hash,
                last_checked_at |-> isoformat(now),
                last_changed_at |-> isoformat(now),
                error_count |-> 0,
                normalized_text |-> normalized_text],
               DictOnly(response, {"etag", "last_modified"}))

\* prev_state.get('last_hash') / prev_state.get('normalized_text')
PrevHash(prev_state) ==
    IF "last_hash" \in DOMAIN prev_state THEN prev_state["last_hash"] ELSE None

PrevText(prev_state) ==
    IF "normalized_text" \in DOMAIN prev_state THEN prev_state["normalized_text"] ELSE <<>>

ChangeRecord(url, prev_state, new_hash, normalized_text) ==
    [url |-> url,
     previous_hash |-> PrevHash(prev_state),
     new_hash |-> new_hash,
     diff_snippet |-> generate_diff_snippet(PrevText(prev_state), normalized_text),
     is_new |-> PrevHash(prev_state) = None]

\* What one call of process_url does: the transition it takes, the write it
\* issues (`updates`, <<>> when it issues none), the table afterwards, the
\* exception that leaves it (exc, "" when it returns) and what it returns
\* (`ret`: <<>> for None, <<change_record>> otherwise); `notify` is <<>> when
\* should_notify was not called and <<its outcome>> when it was.
\* what a call of process_url did; `checked` is the instant should_notify
\* read, as <<t>>, when it read one
Outcome(transition, prev_state, notify, checked, updates, written, ret) ==
    [transition |-> transition,
     notify |-> notify,
     notify_now |-> checked,
     prev_state |-> prev_state,
     conditional_headers |-> ConditionalHeaders(prev_state),
     updates |-> updates,
     exc |-> written.exc,
     table |-> written.table,
     ret |-> IF written.exc = "" THEN ret ELSE <<>>]

\* `now` is the instant read at line 130 (lines 105, 126 and touch_state in
\* the branches that end before it), `later` the instant should_notify reads
\* after it
process_url(url_config, patterns, cooldown, table, env, now, later) ==
    LET url == url_config.url
        state == get_state(table, url, env.read)
        prev_state == state.ret
        fetch == env.fetch
    IN
    IF state.exc # ""
    THEN Outcome("None", <<>>, <<>>, <<>>, <<>>, [exc |-> state.exc, table |-> table], <<>>)
    ELSE IF fetch.raises
    THEN LET updates == ErrorUpdates(prev_state, fetch.msg, now) IN
         Outcome("FetchError", prev_state, <<>>, <<>>, updates,
                 update_state(table, url, updates, env.write_ok), <<>>)
    ELSE IF fetch.response.status_code = 304
    THEN Outcome("NotModified", prev_state, <<>>, <<>>, touch_updates(now),
                 touch_state(table, url, now, env.write_ok), <<>>)
    ELSE IF NormalizeRaises(fetch.response.content, patterns)
    THEN LET updates == ErrorUpdates(prev_state, NormalizeMessage(fetch.response.content, patterns),
                                     now) IN
         Outcome("NormalizeError", prev_state, <<>>, <<>>, updates,
                 update_state(table, url, updates, env.write_ok), <<>>)
    ELSE
    LET normalized_text == normalize_html(fetch.response.content, url_config.selector, patterns)
        new_hash == compute_hash(normalized_text)
    IN
    IF prev_state # <<>> /\ PrevHash(prev_state) = new_hash
    THEN Outcome("Unchanged", prev_state, <<>>, <<>>, UnchangedUpdates(now),
                 update_state(table, url, UnchangedUpdates(now), env.write_ok), <<>>)
    ELSE
    LET state_update == ChangedUpdates(new_hash, normalized_text, fetch.response, now)
        notify == should_notify(url, prev_state, cooldown, later)
        checked == IF ReadsClock(prev_state, cooldown) THEN <<later>> ELSE <<>>
    IN
    IF notify.exc # ""
    THEN Outcome("Changed", prev_state, <<notify>>, checked, <<>>,
                 [exc |-> notify.exc, table |-> table], <<>>)
    ELSE IF notify.ret
    THEN LET updates == DictUpdate(state_update, [last_notified_at |-> isoformat(now)]) IN
         Outcome("Eligible", prev_state, <<notify>>, checked, updates,
                 update_state(table, url, updates, env.write_ok),
                 <<ChangeRecord(url, prev_state, new_hash, normalized_text)>>)
    ELSE Outcome("Suppressed", prev_state, <<notify>>, checked, state_update,
                 update_state(table, url, state_update, env.write_ok), <<>>)

\* the normalized text of a call that fetched and normalized, as <<text>>
FetchedText(url_config, patterns, env) ==
    IF get_state(<<>>, url_config.url, env.read).exc # "" THEN <<>>
    ELSE IF env.fetch.raises THEN <<>>
    ELSE IF env.fetch.response.status_code = 304 THEN <<>>
    ELSE IF NormalizeRaises(env.fetch.response.content, patterns) THEN <<>>
    ELSE <<normalize_html(env.fetch.response.content, url_config.selector, patterns)>>

-----------------------------------------------------------------------------
(* The environment: configuration and collaborators' outcomes *)

Urls == {"u1", "u2", "u3"}

UrlConfig(url, selector) == [url |-> url, selector |-> selector]

Config(urls, patterns) == [urls |-> urls, patterns |-> patterns]

Configs ==
    {Config(<<>>, <<>>),
     Config(<<UrlConfig("u1", NoSelector)>>, <<>>),
     Config(<<UrlConfig("u1", NoSelector)>>, <<Pattern(FALSE, "a"), Pattern(TRUE, "b")>>),
     Config(<<UrlConfig("u2", NoSelector)>>, <<NonStringPattern>>),
     Config(<<UrlConfig("u2", NoSelector), UrlConfig("u3", "main")>>, <<>>)}

Cooldowns == {0, 1}

\* the pages a site serves, and the cache validators it sends with each
SitePages(url) ==
    IF url = "u1" THEN Pages
    ELSE IF url = "u2" THEN {PageA, PageAB}
    ELSE {PageAB}

ValidatorsOf(page) ==
    IF page = PageA THEN [etag |-> "e1"]
    ELSE IF page = PageAB THEN [etag |-> "e2", last_modified |-> "m1"]
    ELSE <<>>

FetchError == [raises |-> TRUE, msg |-> <<"T", "i", "m", "e", "o", "u", "t">>]

\* a failure whose message is one character longer than what is stored
LongFetchError == [raises |-> TRUE, msg |-> [i \in 1..(MAX_ERROR_LENGTH + 1) |-> "x"]]

Response(status_code, content, validators) ==
    [raises |-> FALSE,
     response |-> DictUpdate([status_code |-> status_code, content |-> content], validators)]

\* what fetch_url may do for a url: raise, answer 304, or answer 200 with a page
FetchOutcomes(url) ==
    (IF url = "u2" THEN {LongFetchError} ELSE {FetchError})
    \cup (IF url = "u1" THEN {Response(304, None, <<>>)} ELSE {})
    \cup {Response(200, page, ValidatorsOf(page)) : page \in SitePages(url)}

\* fetch_url was not called
NotFetched == [raises |-> FALSE, response |-> [status_code |-> 0, content |-> None]]

\* what the collaborators do during one call of process_url; when get_state
\* raises, neither fetch_url nor update_state is called
Envs(url) ==
    [read : {"ok", "ClientError"}, fetch : FetchOutcomes(url), write_ok : BOOLEAN]
    \cup [read : ReadOutcomes \ {"ok", "ClientError"}, fetch : {NotFetched},
          write_ok : {TRUE}]

\* the calls of the store that failed in a call of process_url with outcome
\* r: the read, and the write when the call issued one
FaultsOf(env, r) ==
    (IF env.read = "ok" THEN 0 ELSE 1)
    + (IF r.updates # <<>> /\ ~env.write_ok THEN 1 ELSE 0)

-----------------------------------------------------------------------------
(* lambda/app.py: lambda_handler *)

\* the result of a completed run over no target
EmptyCompletedResult ==
    [statusCode |-> 200,
     body |-> [message |-> "Website diff check completed",
               urls_checked |-> 0,
               changes_detected |-> 0]]

NoUrlsResult == [statusCode |-> 200, body |-> [message |-> "No URLs to check"]]

\* a result that reports len(url_configs) in both counters
CompletedResultSameCount(n_urls, n_changes) ==
    [statusCode |-> 200,
     body |-> [message |-> "Website diff check completed",
               urls_checked |-> n_urls,
               changes_detected |-> n_urls]]

CompletedResult(n_urls, n_changes) ==
    [statusCode |-> 200,
     body |-> [message |-> "Website diff check completed",
               urls_checked |-> n_urls,
               changes_detected |-> n_changes]]

Init ==
    /\ store = <<>>
    /\ clock = 0
    /\ \E config \in Configs :
        /\ url_configs = config.urls
        /\ ignore_patterns = config.patterns
    /\ cooldown_hours \in Cooldowns
    /\ pc = "idle"
    /\ idx = 1
    /\ changes = <<>>
    /\ digest = <<>>
    /\ result = <<>>
    /\ calls = <<>>
    /\ fetched = [u \in Urls |-> <<>>]
    /\ decided = [u \in Urls |-> <<>>]
    /\ normalized = [u \in Urls |-> FALSE]
    /\ applied = <<>>
    /\ runs = 0
    /\ faults = 0

\* lines 190-205: a new invocation, later than the previous one, loads the
\* configuration and returns at once when no URL is configured
StartRun ==
    /\ pc \in {"idle", "done", "raised"}
    /\ runs < MaxRuns
    /\ runs' = runs + 1
    /\ \E later \in clock..MaxTime :
        /\ (later = clock) = (runs = 0)
        /\ clock' = later
    /\ idx' = 1
    /\ changes' = <<>>
    /\ digest' = <<>>
    /\ calls' = <<>>
    /\ IF url_configs = <<>>
       THEN pc' = "done" /\ result' = NoUrlsResult
       ELSE pc' = "loop" /\ result' = <<>>
    /\ UNCHANGED <<store, url_configs, ignore_patterns, cooldown_hours,
                   fetched, decided, normalized, applied, faults>>

\* the record kept of a call of process_url
Call(url_config, patterns, now, env, table, prior_fetch, prior_decision, outcome) ==
    [url |-> url_config.url, now |-> now, env |-> env,
     stored |-> IF url_config.url \in DOMAIN table THEN table[url_config.url] ELSE <<>>,
     prior_fetch |-> prior_fetch,
     prior_decision |-> prior_decision,
     fetch_text |-> FetchedText(url_config, patterns, env),
     transition |-> outcome.transition,
     prev_state |-> outcome.prev_state,
     conditional_headers |-> outcome.conditional_headers,
     updates |-> outcome.updates,
     notify |-> outcome.notify,
     notify_now |-> outcome.notify_now,
     exc |-> outcome.exc,
     ret |-> outcome.ret]

\* lines 209-212: one iteration of the loop, a whole call of process_url,
\* which reads the clock anew: `now` is at or after the last instant read
ProcessTarget ==
    /\ pc = "loop"
    /\ \E env \in Envs(url_configs[idx].url) :
      \E now \in clock..MaxTime :
        \E r \in {process_url(url_configs[idx], ignore_patterns, cooldown_hours,
                              store, env, now, later) : later \in now..MaxTime} :
            /\ faults + FaultsOf(env, r) <= MaxFaults
            /\ faults' = faults + FaultsOf(env, r)
            /\ store' = r.table
            /\ clock' = IF r.notify_now # <<>> THEN r.notify_now[1] ELSE now
            /\ calls' = Append(calls, Call(url_configs[idx], ignore_patterns, now, env,
                                            store, fetched[url_configs[idx].url],
                                            decided[url_configs[idx].url], r))
            /\ fetched' = [fetched EXCEPT ![url_configs[idx].url] =
                              FetchedText(url_configs[idx], ignore_patterns, env)]
            /\ decided' = IF r.ret # <<>>
                          THEN [decided EXCEPT ![url_configs[idx].url] = <<now>>]
                          ELSE decided
            /\ normalized' = [normalized EXCEPT ![url_configs[idx].url] =
                                 @ \/ FetchedText(url_configs[idx], ignore_patterns, env) # <<>>]
            /\ IF r.exc # ""
               THEN pc' = "raised" /\ UNCHANGED <<idx, changes>>
               ELSE /\ changes' = changes \o r.ret
                    /\ idx' = idx + 1
                    /\ pc' = IF idx = Len(url_configs) THEN "collected" ELSE "loop"
    /\ UNCHANGED <<url_configs, ignore_patterns, cooldown_hours, digest,
                   result, applied, runs>>

\* a handler without the try/except around send_digest_email: a failed
\* delivery leaves the handler as an exception
FinishRunUnguarded ==
    /\ pc = "collected"
    /\ \E sent \in BOOLEAN :
        /\ changes = <<>> => sent
        /\ digest' = IF changes # <<>>
                     THEN Append(digest, [changes |-> changes,
                                          total_urls |-> Len(url_configs),
                                          sent |-> sent])
                     ELSE digest
        /\ IF sent
           THEN result' = CompletedResult(Len(url_configs), Len(changes)) /\ pc' = "done"
           ELSE result' = <<>> /\ pc' = "raised"
    /\ UNCHANGED <<store, clock, url_configs, ignore_patterns, cooldown_hours,
                   idx, changes, calls, fetched, decided, normalized, applied,
                   runs, faults>>

\* lines 214-233: the digest, when there are changes, and the result
FinishRun ==
    /\ pc = "collected"
    /\ \E sent \in BOOLEAN :
        /\ changes = <<>> => sent
        /\ digest' = IF changes # <<>>
                     THEN Append(digest, [changes |-> changes,
                                          total_urls |-> Len(url_configs),
                                          sent |-> sent])
                     ELSE digest
    /\ result' = CompletedResult(Len(url_configs), Len(changes))
    /\ pc' = "done"
    /\ UNCHANGED <<store, clock, url_configs, ignore_patterns, cooldown_hours,
                   idx, changes, calls, fetched, decided, normalized, applied,
                   runs, faults>>

Next == StartRun \/ ProcessTarget \/ FinishRun

Spec == Init /\ [][Next]_vars

-----------------------------------------------------------------------------
(* The cooldown policy on arbitrary stored values: the table already holds   *)
(* an item for u1 whose last_notified_at was written by anyone, and one     *)
(* more invocation runs.                                                    *)

LastNotifiedValues ==
    {<<"iso", t, offset>> : t \in 0..MaxTime, offset \in {"+00:00", "Z"}}
    \cup {<<"iso", 0, "">>, <<"text", "garbage">>, <<"number", 0>>, None}

StoredItem ==
    [url |-> "u1",
     last_hash |-> compute_hash(<<"a">>),
     normalized_text |-> <<"a">>,
     last_checked_at |-> isoformat(0),
     last_changed_at |-> isoformat(0),
     error_count |-> 0]

StoredItems ==
    {StoredItem}
    \cup {DictUpdate(StoredItem, [last_notified_at |-> v]) : v \in LastNotifiedValues}

PolicyCooldowns == (-1)..2

InitPolicy ==
    /\ store \in {<<>>} \cup {[u \in {"u1"} |-> item] : item \in StoredItems}
    /\ clock = 0
    /\ url_configs = <<UrlConfig("u1", NoSelector)>>
    /\ ignore_patterns = <<>>
    /\ cooldown_hours \in PolicyCooldowns
    /\ pc = "idle"
    /\ idx = 1
    /\ changes = <<>>
    /\ digest = <<>>
    /\ result = <<>>
    /\ calls = <<>>
    /\ fetched = [u \in Urls |-> <<>>]
    /\ decided = [u \in Urls |-> <<>>]
    /\ normalized = [u \in Urls |-> u \in DOMAIN store]
    /\ applied = <<>>
    /\ runs = MaxRuns - 1
    /\ faults = 0

SpecPolicy == InitPolicy /\ [][Next]_vars

-----------------------------------------------------------------------------
(* generate_diff_snippet called directly on texts of up to MaxNewLines lines *)

Letters == <<"a", "b", "c">>

ShortLines == {<<"a">>, <<"b">>, <<"-", "-", "x">>}

\* the texts of at most two lines of ShortLines
ShortTexts ==
    {<<>>}
    \cup ShortLines
    \cup {JoinLines(<<l1, l2>>) : l1 \in ShortLines, l2 \in ShortLines}

\* n lines of one letter each, the letters in rotation from the k-th
RotatingText(n, k) == JoinLines([i \in 1..n |-> <<Letters[((i + k) % 3) + 1]>>])

LongTexts == {RotatingText(n, k) : n \in 3..MaxNewLines, k \in 0..2}

\* two lines, the first one character longer than MAX_LINE_LENGTH
LongLineText == JoinLines(<<[i \in 1..(MAX_LINE_LENGTH + 1) |-> "y"], <<"a">>>>)

DiffOldTexts == ShortTexts

\* 200 lines: `lead`, then line "a" four times, then distinct lines
NumberedLine(i) == <<"u", ToString(i)>>

AutojunkText(lead) ==
    JoinLines(lead \o [i \in 1..4 |-> <<"a">>]
                   \o [i \in 1..(196 - Len(lead)) |-> NumberedLine(i)])

AutojunkTexts == {AutojunkText(<<>>), AutojunkText(<<(<<"c">>)>>)}

\* lines ended by \r\n, \r and a form feed
BreaksText == <<"a", "\r", "\n", "b", "\r", "c", "\f">>

DiffNewTexts == ShortTexts \cup LongTexts \cup {LongLineText, BreaksText} \cup AutojunkTexts

InitDiff ==
    /\ store = <<>>
    /\ clock = 0
    /\ url_configs = <<>>
    /\ ignore_patterns = <<>>
    /\ cooldown_hours = 0
    /\ pc = "idle"
    /\ idx = 1
    /\ changes = <<>>
    /\ digest = <<>>
    /\ result = <<>>
    /\ calls = <<>>
    /\ fetched = [u \in Urls |-> <<>>]
    /\ decided = [u \in Urls |-> <<>>]
    /\ normalized = [u \in Urls |-> FALSE]
    /\ applied = <<>>
    /\ runs = 0
    /\ faults = 0

DiffCall ==
    /\ applied = <<>>
    /\ \E old_text \in DiffOldTexts, new_text \in DiffNewTexts :
        applied' = [old_text |-> old_text,
                    new_text |-> new_text,
                    snippet |-> generate_diff_snippet(old_text, new_text)]
    /\ UNCHANGED <<store, clock, url_configs, ignore_patterns, cooldown_hours, pc, idx,
                   changes, digest, result, calls, fetched, decided, normalized,
                   runs, faults>>

NextDiff == DiffCall

SpecDiff == InitDiff /\ [][NextDiff]_vars

-----------------------------------------------------------------------------
(* Vocabulary of the properties *)

Indices == 1..Len(calls)

\* the call fetched and normalized a text whose fingerprint is not the one of
\* the state it read
ContentChange(c) ==
    /\ c.fetch_text # <<>>
    /\ compute_hash(c.fetch_text[1]) # PrevHash(c.prev_state)

HasNotified(item) == "last_notified_at" \in DOMAIN item

\* seconds between the stored last_notified_at and the call
SecondsSinceNotified(item, now) == (now - item["last_notified_at"][2]) * TickSeconds

\* the instant at which the call measured the age of last_notified_at: the
\* one should_notify read, or the call's own when it read none
CheckedAt(c) == IF c.notify_now # <<>> THEN c.notify_now[1] ELSE c.now

CooldownSeconds == cooldown_hours * SecondsPerHour

\* the write of the call is in the table
InPlace(c) ==
    /\ c.url \in DOMAIN store
    /\ \A k \in DOMAIN c.updates :
        k \in DOMAIN store[c.url] /\ store[c.url][k] = c.updates[k]

RECURSIVE Concat(_)
Concat(seqs) == IF seqs = <<>> THEN <<>> ELSE Head(seqs) \o Concat(Tail(seqs))

\* the decisions the calls of the run returned, in call order
Returned == Concat([i \in Indices |-> calls[i].ret])

IsAdditionLine(line) == StartsWith(line, <<"+", " ">>)

IsOmittedMarker(line) == StartsWith(line, <<".", ".", ".", " ", "(">>)

PureAdditions(snippet) ==
    LET lines == SplitLines(snippet) IN
    \A i \in 1..Len(lines) :
        IsAdditionLine(lines[i]) \/ (i = Len(lines) /\ IsOmittedMarker(lines[i]))

-----------------------------------------------------------------------------
(* Properties *)

\* the call fetched and normalized a text whose fingerprint is not the one
\* stored for the target
StoredChange(c) ==
    /\ c.fetch_text # <<>>
    /\ compute_hash(c.fetch_text[1]) # PrevHash(c.stored)

\* C1: a content change (the new fingerprint is not the stored one) found
\* while cooldown_hours > 0 and the stored last_notified_at is less than
\* cooldown_hours old returns no decision; its write holds the new
\* fingerprint, the new text and last_changed_at but no last_notified_at,
\* whose stored value stays.
C1_CooldownSuppresses ==
    \A i \in Indices :
        LET c == calls[i] IN
        (/\ StoredChange(c)
         /\ cooldown_hours > 0
         /\ HasNotified(c.stored)
         /\ SecondsSinceNotified(c.stored, CheckedAt(c)) < CooldownSeconds)
        => /\ c.ret = <<>>
           /\ {"last_hash", "normalized_text", "last_changed_at"} \subseteq DOMAIN c.updates
           /\ c.updates["last_hash"] = compute_hash(c.fetch_text[1])
           /\ c.updates["normalized_text"] = c.fetch_text[1]
           /\ c.updates["last_changed_at"] = isoformat(c.now)
           /\ "last_notified_at" \notin DOMAIN c.updates
           /\ store[c.url]["last_notified_at"] = c.stored["last_notified_at"]

\* C2: a content change found while the last_notified_at of the state read is
\* absent or at least cooldown_hours old returns exactly one decision, for the
\* target, with the previous and the new fingerprint, and its write sets
\* last_notified_at to the time of the call.
C2_EligibleChangeNotifies ==
    \A i \in Indices :
        LET c == calls[i] IN
        (/\ ContentChange(c)
         /\ (~HasNotified(c.prev_state)
             \/ SecondsSinceNotified(c.prev_state, CheckedAt(c)) >= CooldownSeconds))
        => /\ Len(c.ret) = 1
           /\ c.ret[1].url = c.url
           /\ c.ret[1].previous_hash = PrevHash(c.prev_state)
           /\ c.ret[1].new_hash = compute_hash(c.fetch_text[1])
           /\ "last_notified_at" \in DOMAIN c.updates
           /\ c.updates["last_notified_at"] = isoformat(c.now)

\* C3: when a target's previous processing and this one both fetched and
\* normalized the same text, this one returns no decision and every stored
\* attribute but last_checked_at is what the previous one left.
C3_Idempotent ==
    \A i \in Indices :
        LET c == calls[i] IN
        (c.prior_fetch # <<>> /\ c.fetch_text = c.prior_fetch)
        => /\ c.ret = <<>>
           /\ c.stored # <<>>
           /\ c.url \in DOMAIN store
           /\ DOMAIN store[c.url] = DOMAIN c.stored
           /\ \A k \in DOMAIN c.stored \ {"last_checked_at"} :
                store[c.url][k] = c.stored[k]

\* C4: a target for which no state was read and whose fetch and normalization succeed
\* returns a decision with is_new, no previous fingerprint and a snippet of
\* additions only, whatever cooldown_hours is.
C4_NewTargetNotifies ==
    \A i \in Indices :
        LET c == calls[i] IN
        (c.prev_state = <<>> /\ c.fetch_text # <<>>)
        => /\ Len(c.ret) = 1
           /\ c.ret[1].is_new
           /\ c.ret[1].previous_hash = None
           /\ PureAdditions(c.ret[1].diff_snippet)

\* C5: in every run send_digest_email is called at most once, only after
\* every target was processed, with all decisions of the run in target order
\* and the number of configured targets; a run that ended called it exactly
\* once iff at least one decision was produced.
C5_OneDigestPerRun ==
    /\ Len(digest) <= 1
    /\ digest # <<>> =>
        /\ Len(calls) = Len(url_configs)
        /\ digest[1].changes = Returned
        /\ digest[1].total_urls = Len(url_configs)
    /\ \A i, j \in 1..Len(changes) :
        i < j => \E m, n \in 1..Len(url_configs) :
                    m < n /\ url_configs[m].url = changes[i].url
                          /\ url_configs[n].url = changes[j].url
    /\ pc \in {"done", "raised"} => ((Len(digest) = 1) <=> (changes # <<>>))

\* C6: in a run where the fetch of one target failed, every target of the
\* list was processed and its write persisted, the decisions reached the
\* digest, and the result reports all configured targets as checked.
C6_FetchErrorIsolated ==
    (pc \in {"done", "raised"} /\ \E i \in Indices : calls[i].transition = "FetchError")
    => /\ Len(calls) = Len(url_configs)
       /\ \A i \in Indices : calls[i].url = url_configs[i].url /\ calls[i].exc = ""
       /\ Returned # <<>> => (digest # <<>> /\ digest[1].changes = Returned)
       /\ result # <<>>
       /\ result.body.urls_checked = Len(url_configs)

\* C7: no failure inside one target's pipeline leaves process_url.
C7_NoFailurePropagates ==
    \A i \in Indices : calls[i].exc = ""

\* C8: when the delivery of the digest failed, the handler returned the
\* result it returns after a delivery, and every write of the run is still
\* in the table.
C8_DigestFailureDecoupled ==
    (digest # <<>> /\ ~digest[1].sent)
    => /\ pc = "done"
       /\ result = CompletedResult(Len(url_configs), Len(Returned))
       /\ \A i \in Indices : InPlace(calls[i])

C8_Witness ==
    /\ digest # <<>>
    /\ ~digest[1].sent
    /\ \E i \in Indices : "last_notified_at" \in DOMAIN calls[i].updates

\* the value should_notify has for a last_notified_at that is absent or a
\* timestamp with an offset
PolicyApplies(c) ==
    \/ cooldown_hours <= 0
    \/ ~HasNotified(c.prev_state)
    \/ (c.prev_state["last_notified_at"][1] = "iso"
        /\ c.prev_state["last_notified_at"][3] # "")

PolicyValue(c) ==
    \/ cooldown_hours <= 0
    \/ ~HasNotified(c.prev_state)
    \/ SecondsSinceNotified(c.prev_state, CheckedAt(c)) >= CooldownSeconds

\* C9: should_notify is true when cooldown_hours <= 0, true when
\* last_notified_at or the whole previous state is absent, and otherwise true
\* iff the time since last_notified_at is at least cooldown_hours.
C9_CooldownPolicy ==
    \A i \in Indices :
        LET c == calls[i] IN
        (c.notify # <<>> /\ PolicyApplies(c))
        => c.notify[1] = [exc |-> "", ret |-> PolicyValue(c)]

\* a call at exactly cooldown_hours after last_notified_at, found eligible
C9_Witness ==
    \E i \in Indices :
        LET c == calls[i] IN
        /\ c.notify # <<>>
        /\ cooldown_hours > 0
        /\ HasNotified(c.prev_state)
        /\ c.prev_state["last_notified_at"][1] = "iso"
        /\ c.prev_state["last_notified_at"][3] # ""
        /\ SecondsSinceNotified(c.prev_state, CheckedAt(c)) = CooldownSeconds
        /\ c.notify[1].ret

\* C10: with cooldown_hours > 0, a stored last_notified_at that is no
\* timestamp with an offset makes should_notify return true without raising,
\* and the change is processed as eligible.
C10_MalformedFailsOpen ==
    \A i \in Indices :
        LET c == calls[i] IN
        (/\ c.notify # <<>>
         /\ cooldown_hours > 0
         /\ HasNotified(c.prev_state)
         /\ ~(c.prev_state["last_notified_at"][1] = "iso"
              /\ c.prev_state["last_notified_at"][3] # ""))
        => c.notify[1] = [exc |-> "", ret |-> TRUE] /\ c.transition = "Eligible"

\* C11: with cooldown_hours > 0, a call that returns a change record for a
\* target comes at least cooldown_hours after the previous call that returned
\* one for the same target.
C11_CooldownSpacing ==
    \A i \in Indices :
        LET c == calls[i] IN
        (cooldown_hours > 0 /\ c.ret # <<>> /\ c.prior_decision # <<>>)
        => (c.now - c.prior_decision[1]) * TickSeconds >= CooldownSeconds

Validators == {"etag", "last_modified"}

\* C12: every detected change writes the new fingerprint, the new text,
\* last_changed_at = last_checked_at = now and error_count = 0, and afterwards
\* the stored etag and last_modified are exactly those of the response.
C12_ChangeWrite ==
    \A i \in Indices :
        LET c == calls[i] IN
        ContentChange(c)
        => /\ {"last_hash", "normalized_text", "last_changed_at", "last_checked_at",
               "error_count"} \subseteq DOMAIN c.updates
           /\ c.updates["last_hash"] = compute_hash(c.fetch_text[1])
           /\ c.updates["normalized_text"] = c.fetch_text[1]
           /\ c.updates["last_changed_at"] = isoformat(c.now)
           /\ c.updates["last_checked_at"] = isoformat(c.now)
           /\ c.updates["error_count"] = 0
           /\ c.url \in DOMAIN store
           /\ DictOnly(store[c.url], Validators) = DictOnly(c.env.fetch.response, Validators)

\* the item of a url in the table now, <<>> when there is none
StoredNow(url) == IF url \in DOMAIN store THEN store[url] ELSE <<>>

\* attribute k is in both items with one value, or in neither
SameAttribute(before, after, k) ==
    /\ (k \in DOMAIN before) = (k \in DOMAIN after)
    /\ k \in DOMAIN before => after[k] = before[k]

\* the fetch raised, or the page fetched could not be normalized
FetchOrExtractionFailed(c) ==
    \/ c.env.fetch.raises
    \/ (c.env.fetch.response.status_code = 200
        /\ NormalizeRaises(c.env.fetch.response.content, ignore_patterns))

\* C13: a call whose fetch or normalization failed returns no decision and
\* writes exactly error_count = the stored error count + 1, last_error
\* of at most MAX_ERROR_LENGTH characters and last_checked_at; fingerprint,
\* text, validators, last_changed_at and last_notified_at stay, and the target
\* is not processed again in the run.
C13_ErrorFrame ==
    \A i \in Indices :
        LET c == calls[i] IN
        FetchOrExtractionFailed(c)
        => /\ c.ret = <<>>
           /\ DOMAIN c.updates = {"error_count", "last_error", "last_checked_at"}
           /\ c.updates["error_count"] =
                (IF "error_count" \in DOMAIN c.stored
                 THEN c.stored["error_count"] ELSE 0) + 1
           /\ Len(c.updates["last_error"]) <= MAX_ERROR_LENGTH
           /\ c.env.fetch.raises =>
                c.updates["last_error"] =
                    SubSeq(c.env.fetch.msg, 1, Len(c.updates["last_error"]))
           /\ c.env.fetch.raises /\ Len(c.env.fetch.msg) <= MAX_ERROR_LENGTH =>
                c.updates["last_error"] = c.env.fetch.msg
           /\ c.updates["last_checked_at"] = isoformat(c.now)
           /\ \A k \in {"last_hash", "normalized_text", "etag", "last_modified",
                        "last_changed_at", "last_notified_at"} :
                SameAttribute(c.stored, StoredNow(c.url), k)
           /\ \A j \in Indices : j # i => calls[j].url # c.url

NotModified(c) == ~c.env.fetch.raises /\ c.env.fetch.response.status_code = 304

\* C14: a call whose fetch answered 304 returns no decision, writes
\* last_checked_at and nothing else, leaves fingerprint, text, validators,
\* last_changed_at, last_notified_at and error_count as they were, and neither
\* normalizes nor evaluates the cooldown.
C14_NotModifiedFrame ==
    \A i \in Indices :
        LET c == calls[i] IN
        NotModified(c)
        => /\ c.ret = <<>>
           /\ c.updates = [last_checked_at |-> isoformat(c.now)]
           /\ \A k \in {"last_hash", "normalized_text", "etag", "last_modified",
                        "last_changed_at", "last_notified_at", "error_count"} :
                SameAttribute(c.stored, StoredNow(c.url), k)
           /\ c.fetch_text = <<>>
           /\ c.notify = <<>>

\* a 304 for a target with a stored fingerprint and a failure counted, whose
\* touch reached the table
C14_Witness ==
    \E i \in Indices :
        LET c == calls[i] IN
        /\ NotModified(c)
        /\ c.exc = ""
        /\ "last_hash" \in DOMAIN c.stored
        /\ c.stored["error_count"] > 0
        /\ store[c.url]["error_count"] = c.stored["error_count"]
        /\ store[c.url]["last_checked_at"] = isoformat(c.now)
        /\ store[c.url]["last_checked_at"] # c.stored["last_checked_at"]

\* the stored last_notified_at of a url in a table, <<>> when there is none
NotifiedAt(table, url) ==
    IF url \in DOMAIN table /\ "last_notified_at" \in DOMAIN table[url]
    THEN <<table[url]["last_notified_at"]>>
    ELSE <<>>

\* C15: a step changes the stored last_notified_at of a target only when it
\* is a call of process_url that returns a change record for that target.
C15_NotifiedOnlyWithDecision ==
    [][\A u \in Urls :
         NotifiedAt(store', u) # NotifiedAt(store, u)
         => /\ Len(changes') = Len(changes) + 1
            /\ changes'[Len(changes')].url = u]_vars

\* a later notification of a target moved its last_notified_at, and a
\* suppressed change of it before left it
C15_Witness ==
    \E i \in Indices :
        LET c == calls[i] IN
        /\ c.ret # <<>>
        /\ HasNotified(c.stored)
        /\ store[c.url]["last_notified_at"] # c.stored["last_notified_at"]
        /\ c.stored["last_changed_at"] # c.stored["last_notified_at"]

\* C16: a target has a stored fingerprint iff some call fetched and
\* normalized it.
C16_FingerprintIffNormalized ==
    \A u \in Urls : ("last_hash" \in DOMAIN StoredNow(u)) <=> normalized[u]

\* C17: a stored fingerprint is the fingerprint of the stored normalized
\* text, and the snippet of every change record is the diff from the
\* normalized text stored for the target when the call began.
C17_StoredTextIsBaseline ==
    /\ \A u \in DOMAIN store :
        "last_hash" \in DOMAIN store[u]
        => /\ "normalized_text" \in DOMAIN store[u]
           /\ store[u]["last_hash"] = compute_hash(store[u]["normalized_text"])
    /\ \A i \in Indices :
        LET c == calls[i] IN
        c.ret # <<>>
        => c.ret[1].diff_snippet =
              generate_diff_snippet(PrevText(c.stored), c.fetch_text[1])

\* C18: a change record has is_new iff the table held no fingerprint for the
\* target when the call began, and its previous_hash is the fingerprint the
\* table held then.
C18_IsNewIffNoFingerprint ==
    \A i \in Indices :
        LET c == calls[i] IN
        c.ret # <<>>
        => /\ c.ret[1].is_new <=> "last_hash" \notin DOMAIN c.stored
           /\ c.ret[1].previous_hash = PrevHash(c.stored)

\* the number of change records given to send_digest_email in the run
HandedToDigest == IF digest = <<>> THEN 0 ELSE Len(digest[1].changes)

\* C19: the result of a run over a non-empty list reports urls_checked =
\* number of configured targets and changes_detected = number of change
\* records given to send_digest_email, which is the number of calls that
\* returned one: a suppressed change is not counted.
C19_ResultCounts ==
    (pc = "done" /\ url_configs # <<>>)
    => /\ result.statusCode = 200
       /\ result.body.urls_checked = Len(url_configs)
       /\ result.body.changes_detected = HandedToDigest
       /\ result.body.changes_detected = Cardinality({i \in Indices : calls[i].ret # <<>>})

\* a run of two targets that returned with one change notified and one
\* suppressed
C19_Witness ==
    /\ pc = "done"
    /\ Len(url_configs) = 2
    /\ result.body.changes_detected = 1
    /\ \E i \in Indices : calls[i].transition = "Suppressed"
    /\ \E i \in Indices : calls[i].transition = "Eligible"

\* C20: with an empty old text and a new text of n lines, the snippet has
\* min(n, MAX_DIFF_LINES) lines that are the first lines of the new text in
\* order, each after "+ " (cut to MAX_LINE_LENGTH characters when longer),
\* followed by one marker line stating n - MAX_DIFF_LINES iff n > MAX_DIFF_LINES.
C20_NewTargetSnippet ==
    (applied # <<>> /\ applied.old_text = <<>>)
    => LET lines == SplitLines(applied.new_text)
           out == SplitLines(applied.snippet)
           n == Len(lines)
           m == IF n < MAX_DIFF_LINES THEN n ELSE MAX_DIFF_LINES
       IN  /\ Len(out) = m + (IF n > MAX_DIFF_LINES THEN 1 ELSE 0)
           /\ \A i \in 1..m :
                /\ StartsWith(out[i], <<"+", " ">> \o Take(lines[i], MAX_LINE_LENGTH))
                /\ Len(lines[i]) <= MAX_LINE_LENGTH => out[i] = <<"+", " ">> \o lines[i]
           /\ n > MAX_DIFF_LINES =>
                out[m + 1] = <<".", ".", ".", " ", "(">> \o <<ToString(n - MAX_DIFF_LINES)>>
                             \o <<" ", "m", "o", "r", "e", " ", "l", "i", "n", "e", "s", ")">>

\* a new text of more than MAX_DIFF_LINES lines, whose snippet ends in the marker
C20_Witness ==
    /\ applied # <<>>
    /\ applied.old_text = <<>>
    /\ Len(SplitLines(applied.new_text)) > MAX_DIFF_LINES
    /\ Len(SplitLines(applied.snippet)) = MAX_DIFF_LINES + 1
    /\ IsOmittedMarker(SplitLines(applied.snippet)[MAX_DIFF_LINES + 1])

\* the added and removed lines of the line-level diff of the call's texts
ChangedLines ==
    LET old_lines == SplitLines(applied.old_text)
        new_lines == SplitLines(applied.new_text)
    IN  DiffBody(old_lines, 1, Len(old_lines), new_lines, 1, Len(new_lines))

\* C21: with a non-empty old text whose line-level diff to the new text has k
\* added or removed lines, the snippet has min(k, MAX_DIFF_LINES) change
\* lines, followed by one marker stating k - MAX_DIFF_LINES iff k > MAX_DIFF_LINES.
C21_DiffCap ==
    (applied # <<>> /\ applied.old_text # <<>>)
    => LET out == SplitLines(applied.snippet)
           k == Len(ChangedLines)
           m == IF k < MAX_DIFF_LINES THEN k ELSE MAX_DIFF_LINES
       IN  /\ Len(out) = m + (IF k > MAX_DIFF_LINES THEN 1 ELSE 0)
           /\ k > MAX_DIFF_LINES =>
                out[m + 1] = <<".", ".", ".", " ", "(">> \o <<ToString(k - MAX_DIFF_LINES)>>
                             \o <<" ", "m", "o", "r", "e", " ", "c", "h", "a", "n", "g", "e", "s", ")">>

\* line is sign followed by one of the lines of text
IsSignedLineOf(line, sign, text) ==
    \E j \in 1..Len(SplitLines(text)) :
        /\ StartsWith(line, <<sign>> \o Take(SplitLines(text)[j], MAX_LINE_LENGTH - 1))
        /\ Len(SplitLines(text)[j]) < MAX_LINE_LENGTH => line = <<sign>> \o SplitLines(text)[j]

\* C22: with a non-empty old text, every line of the snippet but the marker is
\* "+" and a line of the new text or "-" and a line of the old text, and the
\* lines before the cap are all the added and removed lines of the diff, in
\* order, whatever they begin with.
C22_OnlyHeadersDiscarded ==
    (applied # <<>> /\ applied.old_text # <<>>)
    => LET out == SplitLines(applied.snippet)
           k == Len(ChangedLines)
           m == IF k < MAX_DIFF_LINES THEN k ELSE MAX_DIFF_LINES
       IN  /\ \A i \in 1..Len(out) :
                i <= MAX_DIFF_LINES
                => \/ IsSignedLineOf(out[i], "+", applied.new_text)
                   \/ IsSignedLineOf(out[i], "-", applied.old_text)
           /\ Len(out) >= m
           /\ \A i \in 1..m :
                /\ StartsWith(out[i], Take(ChangedLines[i], MAX_LINE_LENGTH))
                /\ Len(ChangedLines[i]) <= MAX_LINE_LENGTH => out[i] = ChangedLines[i]

Ellipsis == <<".", ".", ".">>

\* C23: every line of a snippet has at most MAX_LINE_LENGTH characters, or is
\* MAX_LINE_LENGTH characters followed by the ellipsis.
C23_LineLengthCap ==
    applied # <<>>
    => LET out == SplitLines(applied.snippet) IN
       \A i \in 1..Len(out) :
            \/ Len(out[i]) <= MAX_LINE_LENGTH
            \/ /\ Len(out[i]) = MAX_LINE_LENGTH + Len(Ellipsis)
               /\ SubSeq(out[i], MAX_LINE_LENGTH + 1, Len(out[i])) = Ellipsis


-----------------------------------------------------------------------------
(* normalize_html called directly *)

PageEmpty == Page(<<>>)
PageBlank == Page(<<Elem("p", "", <<" ", "\n", " ">>)>>)
PageMulti == Page(<<Elem("p", "", <<" ", "a", " ", "\n", " ", "\n", " ", "b", " ">>),
                    Elem("style", "", <<"b">>),
                    Elem("p", "main", <<"a", "b">>)>>)

PageBreaks == Page(<<Elem("p", "", <<"\t", "a", "\r", "\n", "U+00A0", "b", "\r", "\f", "a", "b", "U+2028">>)>>)

NormalizePages == Pages \cup {PageEmpty, PageBlank, PageMulti, PageBreaks}

NormalizeSelectors == {NoSelector, "main", "none", InvalidSelector}

PatternChoices ==
    {Pattern(TRUE, "a"), Pattern(TRUE, "b"), Pattern(FALSE, "a"),
     NonStringPattern, OverflowPattern}

MaxPatterns == 2

PatternLists == UNION {[1..n -> PatternChoices] : n \in 0..MaxPatterns}

InitNormalize == InitDiff

NormalizeCall ==
    /\ applied = <<>>
    /\ \E html \in NormalizePages, selector \in NormalizeSelectors,
          patterns \in PatternLists :
        applied' = [html |-> html,
                    selector |-> selector,
                    patterns |-> patterns,
                    exc |-> NormalizeException(html, patterns),
                    ret |-> IF NormalizeRaises(html, patterns) THEN <<>>
                            ELSE <<normalize_html(html, selector, patterns)>>]
    /\ UNCHANGED <<store, clock, url_configs, ignore_patterns, cooldown_hours, pc, idx,
                   changes, digest, result, calls, fetched, decided, normalized,
                   runs, faults>>

NextNormalize == NormalizeCall

SpecNormalize == InitNormalize /\ [][NextNormalize]_vars

\* the lines normalize_html extracts from the call's markup and selector,
\* before any exclude pattern is applied
ExtractedLines == SplitLines(normalize_html(applied.html, applied.selector, <<>>))

MatchesCompiling(line, patterns) ==
    \E i \in 1..Len(patterns) : patterns[i].compiles /\ PatternSearch(patterns[i], line)

RECURSIVE KeptLines(_, _)
KeptLines(lines, patterns) ==
    IF lines = <<>> THEN <<>>
    ELSE (IF MatchesCompiling(Head(lines), patterns) THEN <<>> ELSE <<Head(lines)>>)
         \o KeptLines(Tail(lines), patterns)

\* C24: normalize_html with a list of exclude patterns returns, without an
\* error, exactly the extracted lines that match none of the patterns that
\* compile, in their order, whatever the reason the other patterns do not
\* compile for.
C24_UncompilableSkipped ==
    (applied # <<>> /\ applied.patterns # <<>> /\ ~applied.html.rejected) =>
        /\ applied.exc = ""
        /\ applied.ret = <<JoinLines(KeptLines(ExtractedLines, applied.patterns))>>


\* C25: every text normalize_html returns is a sequence of lines joined by
\* single newlines in which no line is empty and none begins or ends with
\* whitespace; for empty input it is the empty string.
C25_TrimmedNonEmptyLines ==
    (applied # <<>> /\ applied.exc = "") =>
        LET out == applied.ret[1] IN
        /\ out # <<>> => ~IsSpace(out[1]) /\ ~IsSpace(out[Len(out)])
        /\ \A i \in 1..Len(out) :
            out[i] = "\n" => /\ 1 < i /\ i < Len(out)
                             /\ ~IsSpace(out[i - 1])
                             /\ ~IsSpace(out[i + 1])
        /\ out = JoinLines(SplitLines(out))
        /\ applied.html = PageEmpty => out = <<>>

\* a page whose text has padded and blank lines was normalized to several lines
C25_Witness ==
    /\ applied # <<>>
    /\ applied.html = PageMulti
    /\ applied.selector = NoSelector
    /\ applied.exc = ""
    /\ applied.ret = <<<<"a", "\n", "b", "\n", "a", "b">>>>


\* the elements of the call's parsed markup its selector matches
MatchingElems ==
    LET soup == Decompose(applied.html.elems) IN
    IF SelectRaises(applied.selector) THEN {}
    ELSE {soup[i] : i \in {j \in 1..Len(soup) : soup[j].id = applied.selector}}

\* C26: normalize_html with a selector that matches nothing or cannot be
\* applied never raises and returns the text it returns with no selector on
\* the same markup and patterns; with a selector that matches, every line of
\* the output is a line of the text of a matching element.
C26_SelectorFallback ==
    (applied # <<>> /\ ~applied.html.rejected /\ applied.selector # NoSelector) =>
        IF MatchingElems = {}
        THEN /\ applied.exc = ""
             /\ applied.ret =
                    <<normalize_html(applied.html, NoSelector, applied.patterns)>>
        ELSE applied.exc = "" =>
                LET out == SplitLines(applied.ret[1]) IN
                \A i \in 1..Len(out) :
                    \E e \in MatchingElems :
                        \E j \in 1..Len(SplitLines(e.text)) :
                            out[i] = Strip(SplitLines(e.text)[j])


-----------------------------------------------------------------------------
(* lambda/app.py: load_urls and load_ignore_patterns called directly *)

\* the values json.loads returns
JStr(s) == [type |-> "str", s |-> s]
JNum(n) == [type |-> "int", n |-> n]
JNull == [type |-> "NoneType"]
JBool(b) == [type |-> "bool", b |-> b]
JList(items) == [type |-> "list", items |-> items]
JObject(keys, values) == [type |-> "dict", keys |-> keys, values |-> values]

\* the text of a configuration variable: text json.loads rejects, with the
\* exception it raises, or the text of a value
RejectedJson(exc) == [valid |-> FALSE, exc |-> exc]
\* text that is no JSON: json.JSONDecodeError
InvalidJson == RejectedJson("JSONDecodeError")
\* brackets nested deeper than the interpreter's recursion limit, closed or
\* not ('[' * 1500): RecursionError
DeepJson == RejectedJson("RecursionError")
\* an integer literal of more than 4300 digits ('1' * 5000): ValueError
HugeIntJson == RejectedJson("ValueError")
JsonText(value) == [valid |-> TRUE, value |-> value]

\* except json.JSONDecodeError: the empty list for that class, any other
\* exception of json.loads leaves the function
LoadsFailed(text) ==
    IF text.exc = "JSONDecodeError" THEN Returns(JList(<<>>)) ELSE Raises(text.exc)

\* {'url': url, 'selector': selector}
TargetObject(url, selector) == JObject(<<JStr(<<"u", "r", "l">>), JStr(<<"s", "e", "l", "e", "c", "t", "o", "r">>)>>,
                                       <<url, selector>>)

\* for url in urls: the elements of a list, the keys of a dict, the characters
\* of a str; any other value is not iterable
Iterable(value) == value.type \in {"list", "dict", "str"}

Iterate(value) ==
    IF value.type = "list" THEN value.items
    ELSE IF value.type = "dict" THEN value.keys
    ELSE [i \in 1..Len(value.s) |-> JStr(<<value.s[i]>>)]

\* lines 33-36
LoadedTarget(url) ==
    IF url.type = "str" THEN TargetObject(url, JNull) ELSE url

load_urls(urls_json) ==
    IF ~urls_json.valid THEN LoadsFailed(urls_json)
    ELSE LET urls == urls_json.value IN
         IF ~Iterable(urls) THEN Raises("TypeError")
         ELSE LET elements == Iterate(urls) IN
              Returns(JList([i \in 1..Len(elements) |-> LoadedTarget(elements[i])]))

load_ignore_patterns(ignore_json) ==
    IF ~ignore_json.valid THEN LoadsFailed(ignore_json)
    ELSE Returns(ignore_json.value)

MaxItems == 3

U1 == JStr(<<"u", "1">>)
U2 == JStr(<<"u", "2">>)

JsonItems == {U1, U2, JNum(5), JNull, TargetObject(U1, JStr(<<"m", "a", "i", "n">>))}

JsonValues ==
    {JList(items) : items \in UNION {[1..n -> JsonItems] : n \in 0..MaxItems}}
    \cup {JNum(5), JNull, JBool(TRUE), JStr(<<"a", "b">>), JObject(<<U1>>, <<JNum(1)>>)}

ConfigTexts == {InvalidJson, DeepJson, HugeIntJson} \cup {JsonText(value) : value \in JsonValues}

InitConfig == InitDiff

LoadUrlsCall ==
    /\ applied = <<>>
    /\ \E urls_json \in ConfigTexts :
        applied' = [op |-> "load_urls", text |-> urls_json,
                    outcome |-> load_urls(urls_json)]
    /\ UNCHANGED <<store, clock, url_configs, ignore_patterns, cooldown_hours, pc, idx,
                   changes, digest, result, calls, fetched, decided, normalized,
                   runs, faults>>

LoadIgnorePatternsCall ==
    /\ applied = <<>>
    /\ \E ignore_json \in ConfigTexts :
        applied' = [op |-> "load_ignore_patterns", text |-> ignore_json,
                    outcome |-> load_ignore_patterns(ignore_json)]
    /\ UNCHANGED <<store, clock, url_configs, ignore_patterns, cooldown_hours, pc, idx,
                   changes, digest, result, calls, fetched, decided, normalized,
                   runs, faults>>

NextConfig == LoadUrlsCall \/ LoadIgnorePatternsCall

SpecConfig == InitConfig /\ [][NextConfig]_vars

\* the text is the JSON of a list all of whose elements have one of the types
IsListOf(text, types) ==
    /\ text.valid
    /\ text.value.type = "list"
    /\ \A i \in 1..Len(text.value.items) : text.value.items[i].type \in types

\* the text is no valid JSON, or the JSON of something else than a list of
\* targets (strings or objects) for load_urls, of patterns (strings) for
\* load_ignore_patterns
Malformed ==
    IF applied.op = "load_urls" THEN ~IsListOf(applied.text, {"str", "dict"})
    ELSE ~IsListOf(applied.text, {"str"})

\* C27: load_urls and load_ignore_patterns return an empty list, without
\* raising, for every malformed configuration text; load_urls returns a valid
\* list of strings as targets with no selector, in order.
C27_MalformedConfigRecovered ==
    applied # <<>> =>
        /\ Malformed =>
            /\ applied.outcome.exc = ""
            /\ applied.outcome.ret = JList(<<>>)
        /\ (applied.op = "load_urls" /\ IsListOf(applied.text, {"str"})) =>
            /\ applied.outcome.exc = ""
            /\ applied.outcome.ret =
                JList([i \in 1..Len(applied.text.value.items) |->
                            TargetObject(applied.text.value.items[i], JNull)])


-----------------------------------------------------------------------------
(* Properties of the conditional fetch, the empty run and change detection *)

HintOf == [etag |-> "If-None-Match", last_modified |-> "If-Modified-Since"]

\* C28: every fetch is issued with exactly the validators the table holds for
\* the target when the call begins: each non-empty etag as If-None-Match, each
\* non-empty last_modified as If-Modified-Since, and no header when the table
\* holds no item for the target.
C28_StoredValidatorsSent ==
    \A i \in Indices :
        LET c == calls[i] IN
        /\ \A k \in Validators :
            IF k \in DOMAIN c.stored /\ c.stored[k] # ""
            THEN /\ HintOf[k] \in DOMAIN c.conditional_headers
                 /\ c.conditional_headers[HintOf[k]] = c.stored[k]
            ELSE HintOf[k] \notin DOMAIN c.conditional_headers
        /\ DOMAIN c.conditional_headers \subseteq {HintOf[k] : k \in Validators}
        /\ c.stored = <<>> => c.conditional_headers = <<>>


ChangedTransitions == {"Changed", "Eligible", "Suppressed"}

\* the table holds a fingerprint for the target and the text the call
\* normalized is the text the table holds
SameAsStoredText(c) ==
    /\ "last_hash" \in DOMAIN c.stored
    /\ "normalized_text" \in DOMAIN c.stored
    /\ c.stored["normalized_text"] = c.fetch_text[1]

\* C30: a call that fetched and normalized a text takes the changed branch
\* iff the table holds no fingerprint for the target or the text differs
\* from the normalized text the table holds, and otherwise is Unchanged and
\* returns no decision; so a fetched content that differs from the stored one
\* only in lines an exclude pattern matches is Unchanged.
C30_ChangedIffTextDiffers ==
    \A i \in Indices :
        LET c == calls[i] IN
        c.fetch_text # <<>> =>
            /\ c.transition \in ChangedTransitions \cup {"Unchanged"}
            /\ c.transition \in ChangedTransitions <=> ~SameAsStoredText(c)
            /\ c.transition = "Unchanged" => c.ret = <<>>


-----------------------------------------------------------------------------
(* Properties of the stored state across runs *)

ErrorTransitions == {"FetchError", "NormalizeError"}

\* item.get('error_count', 0)
ErrorCountOf(item) == IF "error_count" \in DOMAIN item THEN item["error_count"] ELSE 0

\* C31: the stored error count of a target is the number of its most recent
\* runs in a row that ended in the Error transition: each call that ends in
\* Error leaves the count the table held plus one, and each call that ends in
\* any other transition leaves it 0.
C31_ConsecutiveErrorCount ==
    \A i \in Indices :
        LET c == calls[i] IN
        ErrorCountOf(StoredNow(c.url)) =
            IF c.transition \in ErrorTransitions
            THEN ErrorCountOf(c.stored) + 1
            ELSE 0


\* the most recent change the item records was suppressed: it was detected
\* after the last notification, which only a write without last_notified_at
\* leaves behind
LastChangeSuppressed(item) ==
    /\ "last_changed_at" \in DOMAIN item
    /\ "normalized_text" \in DOMAIN item
    /\ HasNotified(item)
    /\ item["last_changed_at"][2] > item["last_notified_at"][2]

\* C32: a suppressed change to a text B is recorded in the table as the
\* target's text, and every later call that fetches the text B while it is
\* still the suppressed one returns no change record, whether or not the
\* cooldown is over by then.
C32_SuppressedNotRefired ==
    \A i \in Indices :
        LET c == calls[i] IN
        /\ (c.transition = "Suppressed" /\ c.exc = "") =>
                /\ LastChangeSuppressed(StoredNow(c.url))
                /\ StoredNow(c.url)["normalized_text"] = c.fetch_text[1]
        /\ (/\ LastChangeSuppressed(c.stored)
            /\ c.fetch_text = <<c.stored["normalized_text"]>>) => c.ret = <<>>


\* the run has ended: lambda_handler returned, or an exception left it
RunEnded == pc \in {"done", "raised"}

\* the call wrote a last_notified_at that is in the table
AdvancedNotified(c) ==
    /\ c.exc = ""
    /\ "last_notified_at" \in DOMAIN c.updates

\* C33: when a run has ended, every call of the run that wrote an advanced
\* last_notified_at returned a change record that was passed to
\* send_digest_email in that run, also when the run ended by an error in a
\* later target.
C33_NotifiedImpliesDigest ==
    RunEnded =>
        \A i \in Indices :
            LET c == calls[i] IN
            AdvancedNotified(c) =>
                /\ c.ret # <<>>
                /\ digest # <<>>
                /\ \E j \in 1..Len(digest[1].changes) : digest[1].changes[j] = c.ret[1]


Transitions == {"NotModified", "FetchError", "NormalizeError", "Unchanged",
                "Eligible", "Suppressed"}

\* the urls of the target list
ConfiguredUrls == {url_configs[i].url : i \in 1..Len(url_configs)}

\* C34: when a run has ended, its calls of process_url are one per configured
\* target, in the order of the list; each took one of the transitions
\* NotModified, Error, Unchanged, Eligible, Suppressed, made one write, which
\* is in the item of its own url, and returned at most one change record; no
\* item of another url was written.
C34_EachTargetOnce ==
    (RunEnded /\ url_configs # <<>>) =>
        /\ Len(calls) = Len(url_configs)
        /\ \A i \in Indices :
            LET c == calls[i] IN
            /\ c.url = url_configs[i].url
            /\ c.transition \in Transitions
            /\ c.updates # <<>>
            /\ c.exc = ""
            /\ InPlace(c)
            /\ Len(c.ret) <= 1
        /\ DOMAIN store \subseteq ConfiguredUrls


\* the instant of a stored timestamp
InstantOf(item, k) == item[k][2]

\* C35: every stored item with last_notified_at has last_changed_at, every
\* item with last_changed_at has a fingerprint and last_checked_at, and
\* last_notified_at <= last_changed_at <= last_checked_at; a call that is not
\* in the changed branch leaves last_changed_at as it was.
C35_TimestampOrder ==
    /\ \A u \in DOMAIN store :
        LET item == store[u] IN
        /\ HasNotified(item) =>
            /\ "last_changed_at" \in DOMAIN item
            /\ InstantOf(item, "last_notified_at") <= InstantOf(item, "last_changed_at")
        /\ "last_changed_at" \in DOMAIN item =>
            /\ "last_hash" \in DOMAIN item
            /\ "last_checked_at" \in DOMAIN item
            /\ InstantOf(item, "last_changed_at") <= InstantOf(item, "last_checked_at")
    /\ \A i \in Indices :
        LET c == calls[i] IN
        c.transition \notin ChangedTransitions =>
            SameAttribute(c.stored, StoredNow(c.url), "last_changed_at")

\* a target was notified, then had a change suppressed, then was checked again
\* without change: its three timestamps differ
C35_Witness ==
    \E i \in Indices :
        LET c == calls[i] item == StoredNow(c.url) IN
        /\ c.transition = "Unchanged"
        /\ c.exc = ""
        /\ HasNotified(item)
        /\ InstantOf(item, "last_notified_at") < InstantOf(item, "last_changed_at")
        /\ InstantOf(item, "last_changed_at") < InstantOf(item, "last_checked_at")

=============================================================================
